---- MODULE Spec2Model ----
(***************************************************************************)
(* Model of the two-stage retail analysis pipeline.                        *)
(*   Stage 1 (Analysis.py): load_local_dataset, perform_initial_cleaning,  *)
(*     save_processed_dataset, explore_dataset, generate_basic_insights    *)
(*     and main.                                                           *)
(*   Stage 2 (VizualisationAnalysis.py): main and the six chart methods    *)
(*     of CustomerVisualizationAnalysis.                                   *)
(*                                                                         *)
(* A DataFrame is a record [none, columns, rows]: columns is the sequence  *)
(* of column labels, rows the sequence of rows in index order.  A row is a *)
(* function from "idx" (the pandas index label) and the column labels to   *)
(* cells.  A cell is [na, v]: na is TRUE for NaN/None.  Strings are tuples *)
(* of characters, so that str.contains is a real substring search.  Price  *)
(* and TotalAmount are in hundredths (255 is 2.55).                        *)
(***************************************************************************)
EXTENDS Integers, Sequences, FiniteSets, TLC

VARIABLES
    pc,          \* position of the running call ("main_*" inside main, "call" before a direct call)
    xlsx,        \* the input spreadsheet on disk: [status, table]
    df,          \* main's df (result of load_local_dataset) or the argument of a direct call
    df_cleaned,  \* main's df_cleaned or the value returned by perform_initial_cleaning
    removed,     \* the three removal counts printed by perform_initial_cleaning
    csv,         \* uk_retail_processed.csv on disk: [exists, header, rows] as written so far
    console,     \* tags of what has been printed, in order
    raised,      \* the exception that escaped the running call, or "none"
    retval,      \* value returned by the running call
    vpc,         \* stage 2: position inside main
    failing,     \* stage 2: the chart methods whose rendering raises
    invoked,     \* stage 2: chart methods entered, in order
    reported     \* stage 2: "Error in ..." messages printed, in order

vars == <<pc, xlsx, df, df_cleaned, removed, csv, console, raised, retval,
          vpc, failing, invoked, reported>>

stage1 == <<pc, xlsx, df, df_cleaned, removed, csv, console, raised, retval>>
stage2 == <<vpc, failing, invoked, reported>>

\* ---------------------------------------------------------------- bounds
MaxRows == 2        \* rows of a table drawn from the full row domain
MaxLongRows == 5    \* rows of a table drawn from KeyRows (reaches the sample size)

\* ---------------------------------------------------------------- values
None == [none |-> TRUE]
NoFile == [exists |-> FALSE, header |-> <<>>, rows |-> <<>>]
Unset == [none |-> TRUE, unset |-> TRUE]

Cell(x) == [na |-> FALSE, v |-> x]
NaNum == [na |-> TRUE, v |-> 0]
NaStr == [na |-> TRUE, v |-> <<>>]

RawColumns == <<"Invoice", "Quantity", "Price", "CustomerID">>

Invoices == {<<"5", "3", "6">>, <<"5", "C">>}
Quantities == {-1, 0, 2, 6}
Prices == {0, 255}
Customers == {NaStr, Cell(<<"1", "7">>)}

RowValues ==
    [Invoice : {Cell(s) : s \in Invoices},
     Quantity : {Cell(q) : q \in Quantities},
     Price : {Cell(p) : p \in Prices},
     CustomerID : Customers]

KeyRows ==
    { [Invoice |-> Cell(<<"5", "3", "6">>), Quantity |-> Cell(6),
       Price |-> Cell(255), CustomerID |-> Cell(<<"1", "7">>)],
      [Invoice |-> Cell(<<"5", "3", "7">>), Quantity |-> Cell(2),
       Price |-> Cell(100), CustomerID |-> Cell(<<"1", "8">>)],
      [Invoice |-> Cell(<<"C", "5", "3">>), Quantity |-> Cell(-1),
       Price |-> Cell(2750), CustomerID |-> Cell(<<"1", "7">>)],
      [Invoice |-> Cell(<<"C", "5", "3">>), Quantity |-> NaNum,
       Price |-> Cell(255), CustomerID |-> NaStr] }

\* pd.read_excel gives the rows a RangeIndex 0..n-1
DataFrame(values) ==
    [none |-> FALSE,
     columns |-> RawColumns,
     rows |-> [i \in 1..Len(values) |-> ("idx" :> (i - 1)) @@ values[i]]]

Tables ==
    {DataFrame(s) : s \in UNION {[1..n -> RowValues] : n \in 0..MaxRows}}
    \cup {DataFrame(s) : s \in UNION {[1..n -> KeyRows] : n \in 0..MaxLongRows}}

Range(s) == {s[i] : i \in 1..Len(s)}

\* ------------------------------------------------- Analysis.py: helpers
SampleSize == 5

isna(cell) == cell.na

HasColumn(d, c) == \E i \in 1..Len(d.columns) : d.columns[i] = c

\* Series > 0: a comparison with NaN is False
gt0(cell) == ~cell.na /\ cell.v > 0

\* Series * Series: NaN propagates
mul(a, b) == IF a.na \/ b.na THEN NaNum ELSE Cell(a.v * b.v)

\* Series.astype(str): NaN becomes the text "nan"
astype_str(cell) == IF cell.na THEN <<"n", "a", "n">> ELSE cell.v

\* (variant: the pattern is looked for at the start of s only, as str.startswith)
str_startswith(s, pat) == Len(s) >= Len(pat) /\ SubSeq(s, 1, Len(pat)) = pat

\* Series.str.contains(pat): pat occurs somewhere in s
str_contains(s, pat) ==
    \E i \in 1..(Len(s) - Len(pat) + 1) : SubSeq(s, i, i + Len(pat) - 1) = pat

\* (variant: missing values are filled in, as fillna, and every row is kept)
fillna(d) ==
    [d EXCEPT !.rows =
        [i \in 1..Len(@) |->
            [c \in DOMAIN @[i] |->
                IF c # "idx" /\ @[i][c].na THEN [@[i][c] EXCEPT !.na = FALSE] ELSE @[i][c]]]]

\* DataFrame.dropna(): keep the rows with no missing value in any column
dropna(d) ==
    [d EXCEPT !.rows =
        SelectSeq(d.rows, LAMBDA r : \A i \in 1..Len(d.columns) : ~isna(r[d.columns[i]]))]

\* df[(df['Quantity'] > 0) & (df['Price'] > 0)]
FilterPositive(d) ==
    [d EXCEPT !.rows = SelectSeq(d.rows, LAMBDA r : gt0(r["Quantity"]) /\ gt0(r["Price"]))]

\* (variant: the mask is not negated, so only the cancelled orders are kept)
KeepCancelled(d) ==
    [d EXCEPT !.rows =
        SelectSeq(d.rows, LAMBDA r : str_contains(astype_str(r["Invoice"]), <<"C">>))]

\* df[~df['Invoice'].astype(str).str.contains('C')]
FilterCancelled(d) ==
    [d EXCEPT !.rows =
        SelectSeq(d.rows, LAMBDA r : ~str_contains(astype_str(r["Invoice"]), <<"C">>))]

\* (variant: the product is assigned by position from the unfiltered first
\* row, as an assignment of .values that ignores the index would)
AddTotalAmountUnaligned(d) ==
    [d EXCEPT
        !.columns = IF HasColumn(d, "TotalAmount") THEN @ ELSE Append(@, "TotalAmount"),
        !.rows = [i \in 1..Len(@) |->
                    ("TotalAmount" :> mul(@[1]["Quantity"], @[1]["Price"])) @@ @[i]]]

\* (variant: the product is added to an existing TotalAmount, as += would)
AddTotalAmountAccumulating(d) ==
    [d EXCEPT
        !.columns = IF HasColumn(d, "TotalAmount") THEN @ ELSE Append(@, "TotalAmount"),
        !.rows = [i \in 1..Len(@) |->
                    ("TotalAmount" :>
                        IF HasColumn(d, "TotalAmount")
                        THEN Cell(@[i]["TotalAmount"].v + mul(@[i]["Quantity"], @[i]["Price"]).v)
                        ELSE mul(@[i]["Quantity"], @[i]["Price"])) @@ @[i]]]

\* df['TotalAmount'] = df['Quantity'] * df['Price'] (aligned on the index:
\* each row gets the product of its own cells; an existing column is replaced)
AddTotalAmount(d) ==
    [d EXCEPT
        !.columns = IF HasColumn(d, "TotalAmount") THEN @ ELSE Append(@, "TotalAmount"),
        !.rows = [i \in 1..Len(@) |->
                    ("TotalAmount" :> mul(@[i]["Quantity"], @[i]["Price"])) @@ @[i]]]

\* ------------------------------------------------- Analysis.py: functions
\* Result of a call: ret is the value returned, out what it printed.

\* (variant: a read failure yields an empty table instead of None)
load_local_dataset_empty(file) ==
    IF file.status = "ok"
    THEN [ret |-> file.table, out |-> <<"Loading dataset...", "Dataset loaded successfully!">>]
    ELSE [ret |-> DataFrame(<<>>), out |-> <<"Loading dataset...", "Error loading dataset">>]

load_local_dataset(file) ==
    IF file.status = "ok"
    THEN [ret |-> file.table, out |-> <<"Loading dataset...", "Dataset loaded successfully!">>]
    ELSE IF file.status = "missing"
    THEN [ret |-> None, out |-> <<"Loading dataset...", "Error: File not found">>]
    ELSE [ret |-> None, out |-> <<"Loading dataset...", "Error loading dataset">>]

\* (variant: the cancellation filter runs before the positivity filter)
perform_initial_cleaning_reordered(d) ==
    IF d = None
    THEN [ret |-> None, removed |-> <<>>, out |-> <<>>]
    ELSE LET a == dropna(d)
             c == FilterCancelled(a)
             b == FilterPositive(c)
         IN  [ret |-> AddTotalAmount(b),
              removed |-> <<Len(d.rows) - Len(a.rows),
                            Len(c.rows) - Len(b.rows),
                            Len(a.rows) - Len(c.rows)>>,
              out |-> <<"Initial data shape", "Removed missing", "Removed negative",
                        "Removed cancelled", "Final data shape">>]

perform_initial_cleaning(d) ==
    IF d = None
    THEN [ret |-> None, removed |-> <<>>, out |-> <<>>]
    ELSE LET a == dropna(d)
             b == FilterPositive(a)
             c == FilterCancelled(b)
         IN  [ret |-> AddTotalAmount(c),
              removed |-> <<Len(d.rows) - Len(a.rows),
                            Len(a.rows) - Len(b.rows),
                            Len(b.rows) - Len(c.rows)>>,
              out |-> <<"Initial data shape", "Removed missing", "Removed negative",
                        "Removed cancelled", "Final data shape">>]

\* df.to_csv(filename, index=False): the header line, then one line per row
\* without the index label
to_csv(d) ==
    [exists |-> TRUE,
     header |-> d.columns,
     rows |-> [i \in 1..Len(d.rows) |->
                 [c \in Range(d.columns) |-> d.rows[i][c]]]]

\* The outcomes of save_processed_dataset(d) with `file` on disk.  to_csv
\* opens the file for writing (truncating it) and writes line by line; an
\* OSError can stop it before the open, or after any number of lines.
save_processed_dataset(d, file) ==
    IF d = None
    THEN {[csv |-> file, out |-> <<>>, exc |-> "none"]}
    ELSE LET full == to_csv(d)
         IN  {[csv |-> full, out |-> <<"Processed dataset saved">>, exc |-> "none"]}
             \cup {[csv |-> file, out |-> <<>>, exc |-> "OSError"]}
             \cup {[csv |-> [exists |-> TRUE, header |-> <<>>, rows |-> <<>>],
                    out |-> <<>>, exc |-> "OSError"]}
             \cup {[csv |-> [full EXCEPT !.rows = SubSeq(@, 1, k)],
                    out |-> <<>>, exc |-> "OSError"] : k \in 0..(Len(d.rows) - 1)}

\* explore_dataset: Series.sample(5) raises ValueError when the table has
\* fewer than 5 rows (sampling without replacement)
explore_dataset(d) ==
    IF d = None
    THEN [out |-> <<>>, exc |-> "none"]
    ELSE LET upto == <<"Dataset Overview", "First few rows", "Data Types",
                       "Basic Statistics", "Missing Values", "Unique Values",
                       "Sample Values">>
         IN  IF Len(d.columns) > 0 /\ Len(d.rows) < SampleSize
             THEN [out |-> upto, exc |-> "ValueError"]
             ELSE [out |-> Append(upto, "samples"), exc |-> "none"]

\* generate_basic_insights has no None guard: df['InvoiceDate'] on None raises
generate_basic_insights(d) ==
    IF d = None
    THEN [out |-> <<"Basic Insights">>, exc |-> "TypeError"]
    ELSE [out |-> <<"Basic Insights", "Date Range", "Top 5 Countries", "Top 5 Products",
                    "Revenue Statistics", "Unique Customers", "Unique Products">>,
          exc |-> "none"]

\* ------------------------------------------------- Analysis.py: main
main_load ==
    /\ pc = "main_load"
    /\ LET r == load_local_dataset(xlsx)
       IN  /\ df' = r.ret
           /\ console' = console \o r.out
           /\ pc' = IF r.ret = None THEN "main_return_none" ELSE "main_clean"
    /\ UNCHANGED <<xlsx, df_cleaned, removed, csv, raised, retval>>
    /\ UNCHANGED stage2

main_clean ==
    /\ pc = "main_clean"
    /\ LET r == perform_initial_cleaning(df)
       IN  /\ df_cleaned' = r.ret
           /\ removed' = r.removed
           /\ console' = console \o r.out
    /\ pc' = "main_save"
    /\ UNCHANGED <<xlsx, df, csv, raised, retval>>
    /\ UNCHANGED stage2

main_save ==
    /\ pc = "main_save"
    /\ \E o \in save_processed_dataset(df_cleaned, csv) :
          /\ csv' = o.csv
          /\ console' = console \o o.out
          /\ raised' = o.exc
          /\ pc' = IF o.exc = "none" THEN "main_explore" ELSE "main_raised"
    /\ UNCHANGED <<xlsx, df, df_cleaned, removed, retval>>
    /\ UNCHANGED stage2

main_explore ==
    /\ pc = "main_explore"
    /\ LET r == explore_dataset(df_cleaned)
       IN  /\ console' = console \o r.out
           /\ raised' = r.exc
           /\ pc' = IF r.exc = "none" THEN "main_insights" ELSE "main_raised"
    /\ UNCHANGED <<xlsx, df, df_cleaned, removed, csv, retval>>
    /\ UNCHANGED stage2

main_insights ==
    /\ pc = "main_insights"
    /\ LET r == generate_basic_insights(df_cleaned)
       IN  /\ console' = console \o r.out
           /\ raised' = r.exc
           /\ pc' = IF r.exc = "none" THEN "main_return" ELSE "main_raised"
    /\ UNCHANGED <<xlsx, df, df_cleaned, removed, csv, retval>>
    /\ UNCHANGED stage2

main_return ==
    /\ pc \in {"main_return", "main_return_none"}
    /\ retval' = IF pc = "main_return" THEN df_cleaned ELSE None
    /\ pc' = "main_done"
    /\ UNCHANGED <<xlsx, df, df_cleaned, removed, csv, console, raised>>
    /\ UNCHANGED stage2

\* ------------------------------------------------- Analysis.py: direct calls
call_perform_initial_cleaning ==
    /\ pc = "call"
    /\ LET r == perform_initial_cleaning(df)
       IN  /\ df_cleaned' = r.ret
           /\ removed' = r.removed
           /\ console' = console \o r.out
           /\ retval' = r.ret
    /\ pc' = "cleaned"
    /\ UNCHANGED <<xlsx, df, csv, raised>>
    /\ UNCHANGED stage2

\* perform_initial_cleaning applied to its own result
call_perform_initial_cleaning_again ==
    /\ pc = "cleaned"
    /\ LET r == perform_initial_cleaning(df_cleaned)
       IN  /\ retval' = r.ret
           /\ removed' = r.removed
           /\ console' = console \o r.out
    /\ pc' = "recleaned"
    /\ UNCHANGED <<xlsx, df, df_cleaned, csv, raised>>
    /\ UNCHANGED stage2

call_save_processed_dataset ==
    /\ pc = "call"
    /\ \E o \in save_processed_dataset(df, csv) :
          /\ csv' = o.csv
          /\ console' = console \o o.out
          /\ raised' = o.exc
          /\ retval' = IF o.exc = "none" THEN None ELSE retval
    /\ pc' = "saved"
    /\ UNCHANGED <<xlsx, df, df_cleaned, removed>>
    /\ UNCHANGED stage2

call_explore_dataset ==
    /\ pc = "call"
    /\ LET r == explore_dataset(df)
       IN  /\ console' = console \o r.out
           /\ raised' = r.exc
           /\ retval' = IF r.exc = "none" THEN None ELSE retval
    /\ pc' = "explored"
    /\ UNCHANGED <<xlsx, df, df_cleaned, removed, csv>>
    /\ UNCHANGED stage2

call_generate_basic_insights ==
    /\ pc = "call"
    /\ LET r == generate_basic_insights(df)
       IN  /\ console' = console \o r.out
           /\ raised' = r.exc
           /\ retval' = IF r.exc = "none" THEN None ELSE retval
    /\ pc' = "insighted"
    /\ UNCHANGED <<xlsx, df, df_cleaned, removed, csv>>
    /\ UNCHANGED stage2

\* ------------------------------------------------- stage 1 specification
NoSpreadsheet == [status |-> "missing", table |-> None]

Stage2Idle ==
    /\ vpc = "idle"
    /\ failing = {}
    /\ invoked = <<>>
    /\ reported = <<>>

Init ==
    /\ \/ /\ pc = "main_load"
          /\ xlsx \in {NoSpreadsheet, [status |-> "corrupt", table |-> None]}
                      \cup {[status |-> "ok", table |-> t] : t \in Tables}
          /\ df = Unset
       \/ /\ pc = "call"
          /\ xlsx = NoSpreadsheet
          /\ df \in Tables \cup {None}
    /\ df_cleaned = Unset
    /\ removed = <<>>
    /\ csv = NoFile
    /\ console = <<>>
    /\ raised = "none"
    /\ retval = Unset
    /\ Stage2Idle

Next ==
    \/ main_load
    \/ main_clean
    \/ main_save
    \/ main_explore
    \/ main_insights
    \/ main_return
    \/ call_perform_initial_cleaning
    \/ call_perform_initial_cleaning_again
    \/ call_save_processed_dataset
    \/ call_explore_dataset
    \/ call_generate_basic_insights

Spec == Init /\ [][Next]_vars

TypeOK == pc \in {"main_load", "main_clean", "main_save", "main_explore", "main_insights",
                  "main_return", "main_return_none", "main_done", "main_raised",
                  "call", "cleaned", "recleaned", "saved", "explored", "insighted"}


\* ------------------------------------------------- VizualisationAnalysis.py
\* (variant: no try/except in the method, the exception reaches main's except)
ChartMethodUncaught(name, at, next) ==
    /\ vpc = at
    /\ invoked' = Append(invoked, name)
    /\ reported' = IF name \in failing THEN Append(reported, "main") ELSE reported
    /\ vpc' = IF name \in failing THEN "done" ELSE next
    /\ UNCHANGED failing
    /\ UNCHANGED stage1

\* The body of a chart method: try: <render> except Exception: print("Error in <name>").
\* The exception never leaves the method, so main goes on to `next`.
ChartMethod(name, at, next) ==
    /\ vpc = at
    /\ invoked' = Append(invoked, name)
    /\ reported' = IF name \in failing THEN Append(reported, name) ELSE reported
    /\ vpc' = next
    /\ UNCHANGED failing
    /\ UNCHANGED stage1

\* main's except clause: print("Error in main"), then main ends
main_except ==
    /\ reported' = Append(reported, "main")
    /\ vpc' = "done"

\* df = pd.read_csv('uk_retail_processed.csv')
main_read_csv ==
    /\ vpc = "read_csv"
    /\ IF "read_csv" \in failing
       THEN main_except
       ELSE vpc' = "construct" /\ UNCHANGED reported
    /\ UNCHANGED <<failing, invoked>>
    /\ UNCHANGED stage1

\* viz = CustomerVisualizationAnalysis(df); __init__ has no try/except
main_construct ==
    /\ vpc = "construct"
    /\ IF "__init__" \in failing
       THEN main_except
       ELSE vpc' = "plot_sales_trends" /\ UNCHANGED reported
    /\ UNCHANGED <<failing, invoked>>
    /\ UNCHANGED stage1

plot_sales_trends ==
    ChartMethod("plot_sales_trends", "plot_sales_trends", "create_hourly_heatmap")

create_hourly_heatmap ==
    ChartMethod("create_hourly_heatmap", "create_hourly_heatmap", "plot_customer_segments")

plot_customer_segments ==
    ChartMethod("plot_customer_segments", "plot_customer_segments", "plot_product_analysis")

plot_product_analysis ==
    ChartMethod("plot_product_analysis", "plot_product_analysis", "plot_customer_geography")

plot_customer_geography ==
    ChartMethod("plot_customer_geography", "plot_customer_geography", "plot_basket_analysis")

plot_basket_analysis ==
    ChartMethod("plot_basket_analysis", "plot_basket_analysis", "done")

VizSteps == {"read_csv", "__init__", "plot_sales_trends", "create_hourly_heatmap",
             "plot_customer_segments", "plot_product_analysis",
             "plot_customer_geography", "plot_basket_analysis"}

InitViz ==
    /\ pc = "idle"
    /\ xlsx = NoSpreadsheet
    /\ df = Unset
    /\ df_cleaned = Unset
    /\ removed = <<>>
    /\ csv = NoFile
    /\ console = <<>>
    /\ raised = "none"
    /\ retval = Unset
    /\ vpc = "read_csv"
    /\ failing \in SUBSET VizSteps
    /\ invoked = <<>>
    /\ reported = <<>>

NextViz ==
    \/ main_read_csv
    \/ main_construct
    \/ plot_sales_trends
    \/ create_hourly_heatmap
    \/ plot_customer_segments
    \/ plot_product_analysis
    \/ plot_customer_geography
    \/ plot_basket_analysis

SpecViz == InitViz /\ [][NextViz]_vars


\* ------------------------------------------------- properties: helpers
\* Stated from the cleaning rules, independently of the operators above.
IsTable(d) == d # None /\ d # Unset

Missing(r, cols) == \E i \in 1..Len(cols) : r[cols[i]].na

Positive(r) == r["Quantity"].v > 0 /\ r["Price"].v > 0

HasC(r) == \E k \in 1..Len(r["Invoice"].v) : r["Invoice"].v[k] = "C"

Passes(r, cols) == ~Missing(r, cols) /\ Positive(r) /\ ~HasC(r)

Count(rows, P(_)) == Cardinality({i \in 1..Len(rows) : P(rows[i])})

\* perform_initial_cleaning has been applied to the table df, giving df_cleaned
CleaningDone == IsTable(df) /\ IsTable(df_cleaned)

\* out's rows are rows of in: same index label, same value in every column of in,
\* in the same order, none twice
OnlyRemoves(in, out) ==
    /\ Len(out.rows) <= Len(in.rows)
    /\ \A j \in 1..Len(out.rows) :
          /\ \E i \in 1..Len(in.rows) :
                /\ in.rows[i]["idx"] = out.rows[j]["idx"]
                /\ \A k \in 1..Len(in.columns) :
                      out.rows[j][in.columns[k]] = in.rows[i][in.columns[k]]
          /\ \A k \in 1..Len(out.rows) :
                j < k => out.rows[j]["idx"] < out.rows[k]["idx"]

InMain == pc \in {"main_load", "main_clean", "main_save", "main_explore", "main_insights",
                  "main_return", "main_return_none", "main_done", "main_raised"}

ChartOrder == <<"plot_sales_trends", "create_hourly_heatmap", "plot_customer_segments",
                "plot_product_analysis", "plot_customer_geography", "plot_basket_analysis">>

\* ------------------------------------------------- properties
\* C1: every row of the table returned by perform_initial_cleaning has no
\* missing field, Quantity > 0, Price > 0 and an Invoice without "C".
C1_CleanedRowsValid ==
    CleaningDone =>
        \A j \in 1..Len(df_cleaned.rows) :
            /\ ~Missing(df_cleaned.rows[j], df_cleaned.columns)
            /\ Positive(df_cleaned.rows[j])
            /\ ~HasC(df_cleaned.rows[j])

\* C1 witness: a row whose only defect is a "C" inside the invoice has been
\* dropped while another row was kept.
C1_Witness ==
    /\ pc = "cleaned"
    /\ CleaningDone
    /\ Len(df.rows) = 2
    /\ Len(df_cleaned.rows) = 1
    /\ \E i \in 1..2 :
          /\ ~Missing(df.rows[i], df.columns)
          /\ Positive(df.rows[i])
          /\ df.rows[i]["Invoice"].v = <<"5", "C">>

\* C2: every retained row carries TotalAmount, equal to the product of that
\* row's own Quantity and Price (those of the input row with the same index).
C2_TotalAmountIsProduct ==
    CleaningDone =>
        /\ HasColumn(df_cleaned, "TotalAmount")
        /\ \A j \in 1..Len(df_cleaned.rows) :
              LET r == df_cleaned.rows[j]
                  src == df.rows[r["idx"] + 1]
              IN  /\ "TotalAmount" \in DOMAIN r
                  /\ ~r["TotalAmount"].na
                  /\ r["TotalAmount"].v = r["Quantity"].v * r["Price"].v
                  /\ r["TotalAmount"].v = src["Quantity"].v * src["Price"].v

\* C2 witness: two retained rows with different products, the first row of
\* the input having been dropped.
C2_Witness ==
    /\ CleaningDone
    /\ Len(df_cleaned.rows) >= 2
    /\ df_cleaned.rows[1]["idx"] > 0
    /\ df_cleaned.rows[1]["TotalAmount"].v = 1530
    /\ df_cleaned.rows[2]["TotalAmount"].v = 200

\* C3: cleaning the cleaned table again returns the same table: same rows,
\* same TotalAmount values.
C3_Idempotent ==
    (pc = "recleaned" /\ IsTable(df)) => retval = df_cleaned

\* C3 witness: the second cleaning has run on a non-empty cleaned table from
\* which the first cleaning had removed a row.
C3_Witness ==
    /\ pc = "recleaned"
    /\ IsTable(df)
    /\ Len(retval.rows) >= 1
    /\ Len(df.rows) > Len(df_cleaned.rows)

\* C4: when the spreadsheet cannot be read, load_local_dataset reports the
\* error and returns None with no exception; main then returns None without
\* cleaning, writing the output file, exploring or generating insights; and
\* perform_initial_cleaning, save_processed_dataset and explore_dataset
\* called with None print nothing, write nothing and return None.
C4_UnreadableInputIsSwallowed ==
    /\ (InMain /\ xlsx.status # "ok" /\ pc # "main_load") =>
          /\ df = None
          /\ pc \in {"main_return_none", "main_done"}
          /\ raised = "none"
          /\ console \in {<<"Loading dataset...", "Error: File not found">>,
                          <<"Loading dataset...", "Error loading dataset">>}
          /\ df_cleaned = Unset
          /\ removed = <<>>
          /\ csv = NoFile
          /\ pc = "main_done" => retval = None
    /\ (pc \in {"cleaned", "saved", "explored"} /\ df = None) =>
          /\ retval = None
          /\ raised = "none"
          /\ console = <<>>
          /\ csv = NoFile
          /\ pc = "cleaned" => df_cleaned = None

\* C4 witness: main has returned after a parse failure.
C4_Witness ==
    /\ pc = "main_done"
    /\ xlsx.status = "corrupt"
    /\ retval = None

\* C5: once the table is loaded and the object constructed, main enters the
\* six chart methods in the fixed order whatever subset of them raises, and
\* each failure is reported by the method that failed.
C5_ChartsFailureIsolated ==
    /\ \E n \in 0..Len(ChartOrder) : invoked = SubSeq(ChartOrder, 1, n)
    /\ reported \in {SelectSeq(invoked, LAMBDA c : c \in failing), <<"main">>}
    /\ (vpc = "done" /\ "read_csv" \notin failing /\ "__init__" \notin failing) =>
          /\ invoked = ChartOrder
          /\ reported = SelectSeq(ChartOrder, LAMBDA c : c \in failing)

\* C5 witness: main has finished with the first and the fourth chart raising.
C5_Witness ==
    /\ vpc = "done"
    /\ failing = {"plot_sales_trends", "plot_product_analysis"}
    /\ invoked = ChartOrder

\* C6: at the end of every run of main, also one ended by an exception, the
\* output file is either absent or holds the complete cleaned table.
C6_OutputCompleteOrAbsent ==
    pc \in {"main_done", "main_raised"} =>
        \/ csv = NoFile
        \/ csv = to_csv(df_cleaned)

\* C7: cleaning only removes rows: every returned row is an input row with its
\* column values unchanged, in input order, none twice; so the row count does
\* not grow.  Also for a second cleaning of the cleaned table.
C7_OnlyRemovesRows ==
    /\ CleaningDone => OnlyRemoves(df, df_cleaned)
    /\ (pc = "recleaned" /\ IsTable(df)) => OnlyRemoves(df_cleaned, retval)

\* C7 witness: a row with a missing field was removed and a row kept.
C7_Witness ==
    /\ CleaningDone
    /\ Len(df_cleaned.rows) >= 1
    /\ \E i \in 1..Len(df.rows) : Missing(df.rows[i], df.columns)

\* C8: for every cleaned table, also one of fewer than five rows, explore_dataset
\* and generate_basic_insights run without raising in main.
C8_ExplorerCompletes ==
    ~(pc = "main_raised" /\ raised \in {"ValueError", "TypeError"})

\* C9: the cleaned rows are exactly the input rows that pass all four checks.
C9_KeepsEveryValidRow ==
    CleaningDone =>
        \A i \in 1..Len(df.rows) :
            Passes(df.rows[i], df.columns) <=>
                \E j \in 1..Len(df_cleaned.rows) :
                    /\ df_cleaned.rows[j]["idx"] = df.rows[i]["idx"]
                    /\ \A k \in 1..Len(df.columns) :
                          df_cleaned.rows[j][df.columns[k]] = df.rows[i][df.columns[k]]

\* C9 witness: a valid row is kept next to a cancelled one and one with a
\* missing field.
C9_Witness ==
    /\ CleaningDone
    /\ Len(df_cleaned.rows) >= 1
    /\ \E i \in 1..Len(df.rows) : Missing(df.rows[i], df.columns)
    /\ \E i \in 1..Len(df.rows) : ~Missing(df.rows[i], df.columns) /\ HasC(df.rows[i])

\* C10: each dropped row is counted by the first filter it fails, in the
\* order missing values, positivity, cancellation; TotalAmount is on the
\* rows left after the three filters and only on them.
C10_FiltersInOrder ==
    (CleaningDone /\ pc # "recleaned") =>
        LET m(r) == Missing(r, df.columns)
            n(r) == ~Missing(r, df.columns) /\ ~Positive(r)
            c(r) == ~Missing(r, df.columns) /\ Positive(r) /\ HasC(r)
        IN  /\ removed = <<Count(df.rows, m), Count(df.rows, n), Count(df.rows, c)>>
            /\ Len(df_cleaned.rows) = Len(df.rows) - removed[1] - removed[2] - removed[3]
            /\ \A i \in 1..Len(df.rows) : "TotalAmount" \notin DOMAIN df.rows[i]
            /\ \A j \in 1..Len(df_cleaned.rows) : "TotalAmount" \in DOMAIN df_cleaned.rows[j]

\* C10 witness: a cancelled order with a negative quantity was counted by the
\* positivity filter, and the cancellation filter removed nothing.
C10_Witness ==
    /\ pc = "cleaned"
    /\ CleaningDone
    /\ removed[2] >= 1
    /\ removed[3] = 0
    /\ \E i \in 1..Len(df.rows) :
          ~Missing(df.rows[i], df.columns) /\ ~Positive(df.rows[i]) /\ HasC(df.rows[i])

====
